---- MODULE Spec2Model ----
(***************************************************************************)
(* Model of setup_a2i.py: the provisioning client for the Amazon A2I       *)
(* human-review workflow on top of Amazon Textract.                        *)
(*                                                                         *)
(* The six functions of the module are the operations.  Each one is a      *)
(* pure operator from its arguments and the answers of the remote service  *)
(* to the remote calls it issues and its outcome (a return value or a      *)
(* raised exception); the actions apply these operators and the remote     *)
(* services' effects to the state.                                         *)
(*                                                                         *)
(* Python strings the code takes apart (bucket names, S3 URIs, object      *)
(* keys) are sequences of one-character strings; strings the code only     *)
(* passes along are TLA+ strings wrapped by Str.                           *)
(***************************************************************************)
EXTENDS Naturals, Sequences, FiniteSets

VARIABLES
    uis,        \* sagemaker: names of the human task UIs that exist
    flows,      \* sagemaker: flow definition name -> the request that created it, or NoFlow
    cors,       \* s3: bucket -> its CORS rule list (empty: no CORS configuration)
    attached,   \* iam: role -> set of managed policy ARNs attached to it
    saved,      \* caller: the value the last successful create_task_ui returned
    op,         \* the call in progress or last ended: function name and arguments
    calls,      \* remote calls that call has issued so far, in order, with their answers
    result,     \* its outcome: Running, Return(v) or Raise(e)
    printed,    \* what it printed
    pc          \* 0: no call in progress; i in 1..3: update_notebook_role is
                \* about to issue its i-th attach call

vars == <<uis, flows, cors, attached, saved, op, calls, result, printed, pc>>

----------------------------------------------------------------------------
(* Python values, outcomes of a call, answers of a remote service *)

None == [t |-> "None"]
Str(s) == [t |-> "str", v |-> s]
Exc(name) == [t |-> "exc", name |-> name]

Return(v) == [kind |-> "return", val |-> v]
Raise(e) == [kind |-> "raise", val |-> e]
Running == [kind |-> "running"]
NoCall == [kind |-> "none"]

Ok(v) == [ok |-> TRUE, val |-> v]
Fail(name) == [ok |-> FALSE, err |-> Exc(name)]

\* A call whose failure is swallowed.
ReturnOrNone(resp) == IF resp.ok THEN Return(resp.val) ELSE Return(None)

\* return x, where x is the answer of a remote call made outside any try block:
\* the exception of a failed call propagates unchanged.
ReturnOrPropagate(resp) == IF resp.ok THEN Return(resp.val) ELSE Raise(resp.err)

----------------------------------------------------------------------------
(* retrieve_a2i_results_from_output_s3_uri *)

S3Scheme == <<"s", "3", ":", "/", "/">>
Slash == <<"/">>

\* The regular expression 's3://' + bucket + '/': the bucket name is not
\* escaped, so each of its characters is a pattern element.
S3Pattern(bucket) == S3Scheme \o bucket \o Slash

\* One pattern element against one character: '.' matches any character but
\* a newline, every other character of the alphabet used here matches itself.
ElementMatches(p, c) == IF p = "." THEN c # "\n" ELSE p = c

\* The pattern matches the string at position i (1-based).
MatchesAt(pattern, string, i) ==
    /\ i + Len(pattern) - 1 <= Len(string)
    /\ \A j \in 1..Len(pattern) : ElementMatches(pattern[j], string[i + j - 1])

RECURSIVE SplitFrom(_, _, _, _)
\* The pieces of string from position start on, scanning for the next match
\* at position i or later; matches do not overlap.
SplitFrom(pattern, string, i, start) ==
    IF i + Len(pattern) - 1 > Len(string)
    THEN << SubSeq(string, start, Len(string)) >>
    ELSE IF MatchesAt(pattern, string, i)
         THEN << SubSeq(string, start, i - 1) >>
              \o SplitFrom(pattern, string, i + Len(pattern), i + Len(pattern))
         ELSE SplitFrom(pattern, string, i + 1, start)

\* re.split(pattern, string) with no maxsplit: split at every match.
re_split(pattern, string) == SplitFrom(pattern, string, 1, 1)

IndexError == Exc("IndexError")
JSONDecodeError == Exc("JSONDecodeError")

\* json.loads of an object body: the document, or JSONDecodeError.
json_loads(content) ==
    IF content.json THEN Return([t |-> "json", of |-> content.text])
    ELSE Raise(JSONDecodeError)

GetObjectCall(bucket, key, resp) ==
    [api |-> "s3.get_object", Bucket |-> bucket, Key |-> key, answer |-> resp]

\* resp is the answer s3.get_object gives if it is called.
retrieve_a2i_results_from_output_s3_uri(bucket, a2i_s3_output_uri, resp) ==
    LET splitted_string == re_split(S3Pattern(bucket), a2i_s3_output_uri)
    IN  IF Len(splitted_string) < 2
        THEN [calls |-> <<>>, result |-> Raise(IndexError), printed |-> <<>>]
        ELSE LET output_bucket_key == splitted_string[2]
             IN  [calls |-> << GetObjectCall(bucket, output_bucket_key, resp) >>,
                  result |-> IF resp.ok THEN json_loads(resp.val) ELSE Raise(resp.err),
                  printed |-> <<>>]

----------------------------------------------------------------------------
(* create_task_ui *)

\* The template is passed along as one opaque string.
task_template == Str("<crowd-form><crowd-textract-analyze-document/></crowd-form>")

CreateHumanTaskUiCall(task_ui_name, resp) ==
    [api |-> "sagemaker.create_human_task_ui",
     HumanTaskUiName |-> task_ui_name,
     UiTemplate |-> [Content |-> task_template],
     answer |-> resp]

\* resp is the answer of sagemaker.create_human_task_ui.
create_task_ui(task_ui_name, resp) ==
    [calls |-> << CreateHumanTaskUiCall(task_ui_name, resp) >>,
     result |-> ReturnOrPropagate(resp),
     printed |-> <<>>]

----------------------------------------------------------------------------
(* create_flow_definition *)

\* json.dumps of a document: a string that holds exactly that document.
json_dumps(doc) == [t |-> "str", json |-> doc]

MailAddressAliases == <<"Mail Address:", "Mail address:", "Mailing Add:", "Mailing Addresses">>
PhoneNumberAliases == <<"Phone number:", "Phone No.:", "Number:">>

humanLoopActivationConditions ==
    json_dumps(
      [Conditions |-> <<
        [Or |-> <<
          [ConditionType |-> "ImportantFormKeyConfidenceCheck",
           ConditionParameters |->
             [ImportantFormKey |-> "Mail address",
              ImportantFormKeyAliases |-> MailAddressAliases,
              KeyValueBlockConfidenceLessThan |-> 100,
              WordBlockConfidenceLessThan |-> 100]],
          [ConditionType |-> "MissingImportantFormKey",
           ConditionParameters |->
             [ImportantFormKey |-> "Mail address",
              ImportantFormKeyAliases |-> MailAddressAliases]],
          [ConditionType |-> "ImportantFormKeyConfidenceCheck",
           ConditionParameters |->
             [ImportantFormKey |-> "Phone Number",
              ImportantFormKeyAliases |-> PhoneNumberAliases,
              KeyValueBlockConfidenceLessThan |-> 100,
              WordBlockConfidenceLessThan |-> 100]],
          [ConditionType |-> "ImportantFormKeyConfidenceCheck",
           ConditionParameters |->
             [ImportantFormKey |-> "*",
              KeyValueBlockConfidenceLessThan |-> 100,
              WordBlockConfidenceLessThan |-> 100]],
          [ConditionType |-> "ImportantFormKeyConfidenceCheck",
           ConditionParameters |->
             [ImportantFormKey |-> "*",
              KeyValueBlockConfidenceGreaterThan |-> 0,
              WordBlockConfidenceGreaterThan |-> 0]]
        >>]
      >>])

\* The keyword arguments of sagemaker.create_flow_definition, given the
\* activation conditions.
FlowDefinitionKwargs(flow_definition_name, workteam_arn, human_task_ui_arn, role_arn, a2i_output_path, conditions) ==
    [FlowDefinitionName |-> flow_definition_name,
     RoleArn |-> role_arn,
     HumanLoopConfig |->
       [WorkteamArn |-> workteam_arn,
        HumanTaskUiArn |-> human_task_ui_arn,
        TaskCount |-> 1,
        TaskDescription |-> "Document analysis sample task description",
        TaskTitle |-> "Document analysis sample task"],
     HumanLoopRequestSource |->
       [AwsManagedHumanLoopRequestSource |-> "AWS/Textract/AnalyzeDocument/Forms/V1"],
     HumanLoopActivationConfig |->
       [HumanLoopActivationConditionsConfig |->
          [HumanLoopActivationConditions |-> conditions]],
     OutputConfig |-> [S3OutputPath |-> a2i_output_path]]

\* A request whose activation conditions are built from an argument.
FlowDefinitionRequestKeyedByPath(flow_definition_name, workteam_arn, human_task_ui_arn, role_arn, a2i_output_path) ==
    FlowDefinitionKwargs(flow_definition_name, workteam_arn, human_task_ui_arn,
                         role_arn, a2i_output_path,
                         json_dumps([Conditions |-> <<
                            [Or |-> << [ConditionType |-> "ImportantFormKeyConfidenceCheck",
                                        ConditionParameters |->
                                          [ImportantFormKey |-> a2i_output_path]] >>] >>]))

\* The request create_flow_definition submits.
FlowDefinitionRequest(flow_definition_name, workteam_arn, human_task_ui_arn, role_arn, a2i_output_path) ==
    FlowDefinitionKwargs(flow_definition_name, workteam_arn, human_task_ui_arn,
                         role_arn, a2i_output_path, humanLoopActivationConditions)

CreateFlowDefinitionCall(request, resp) ==
    [api |-> "sagemaker.create_flow_definition", request |-> request, answer |-> resp]

\* resp is the answer of sagemaker.create_flow_definition.
create_flow_definition(flow_definition_name, workteam_arn, human_task_ui_arn, role_arn, a2i_output_path, resp) ==
    [calls |-> << CreateFlowDefinitionCall(
                     FlowDefinitionRequest(flow_definition_name, workteam_arn,
                                           human_task_ui_arn, role_arn, a2i_output_path),
                     resp) >>,
     result |-> IF resp.ok THEN Return(resp.val.FlowDefinitionArn) ELSE Raise(resp.err),
     printed |-> <<>>]

----------------------------------------------------------------------------
(* describe_flow_definition *)

DescribeFlowDefinitionCall(name, resp) ==
    [api |-> "sagemaker.describe_flow_definition", FlowDefinitionName |-> name,
     answer |-> resp]

\* resp is the answer of sagemaker.describe_flow_definition.
describe_flow_definition(name, resp) ==
    [calls |-> << DescribeFlowDefinitionCall(name, resp) >>,
     result |-> ReturnOrPropagate(resp),
     printed |-> <<>>]

----------------------------------------------------------------------------
(* add_cors_policy *)

\* A configuration that also lets PUT through.
cors_configuration_with_put ==
    [CORSRules |-> <<
        [AllowedHeaders |-> <<>>,
         AllowedMethods |-> <<"GET", "PUT">>,
         AllowedOrigins |-> <<"*">>,
         ExposeHeaders |-> <<>>] >>]

cors_configuration ==
    [CORSRules |-> <<
        [AllowedHeaders |-> <<>>,
         AllowedMethods |-> <<"GET">>,
         AllowedOrigins |-> <<"*">>,
         ExposeHeaders |-> <<>>] >>]

PutBucketCorsCall(bucket_name, resp) ==
    [api |-> "s3.put_bucket_cors", Bucket |-> bucket_name,
     CORSConfiguration |-> cors_configuration, answer |-> resp]

\* A handler that raises the exception again.
AfterTryReraise(e) == Raise(e)

\* What the function's end is after its try block: the body ran to its end,
\* or except Exception caught e and printed it.  Either way the function
\* falls off its end and returns None.
AfterTry(e) == Return(None)

\* resp is the answer of s3.put_bucket_cors.
add_cors_policy(bucket_name, resp) ==
    [calls |-> << PutBucketCorsCall(bucket_name, resp) >>,
     result |-> IF resp.ok THEN Return(None) ELSE AfterTry(resp.err),
     printed |-> IF resp.ok
                 THEN << [t |-> "str", text |-> "CORS rules added to", arg |-> bucket_name] >>
                 ELSE << resp.err >>]

----------------------------------------------------------------------------
(* update_notebook_role, one attach call at a time *)

\* The second policy attached twice, the third never.
PolicyArnsRepeated ==
    << "arn:aws:iam::aws:policy/AmazonTextractFullAccess",
       "arn:aws:iam::aws:policy/AmazonSageMakerFullAccess",
       "arn:aws:iam::aws:policy/AmazonSageMakerFullAccess" >>

\* The policies of the three attach calls, in the order of the code.
PolicyArns ==
    << "arn:aws:iam::aws:policy/AmazonTextractFullAccess",
       "arn:aws:iam::aws:policy/AmazonSageMakerFullAccess",
       "arn:aws:iam::aws:policy/AmazonS3FullAccess" >>

AttachRolePolicyCall(role_name, i, resp) ==
    [api |-> "iam.attach_role_policy", RoleName |-> role_name,
     PolicyArn |-> PolicyArns[i], answer |-> resp]

\* Each attach call in a try block of its own: a failure does not stop the rest.
AfterAttachContinue(i, ok) == IF i < 3 THEN i + 1 ELSE 0

\* Where control goes after the i-th attach call: to the next call, or (0)
\* out of the function, at the end of the try body or through the handler.
AfterAttach(i, ok) == IF ok /\ i < Len(PolicyArns) THEN i + 1 ELSE 0

\* The i-th step of update_notebook_role; resp is the answer of the i-th
\* iam.attach_role_policy.
update_notebook_role_step(role_name, i, resp) ==
    [calls |-> << AttachRolePolicyCall(role_name, i, resp) >>,
     pc |-> AfterAttach(i, resp.ok),
     result |-> IF AfterAttach(i, resp.ok) # 0 THEN Running
                ELSE IF resp.ok THEN Return(None) ELSE AfterTry(resp.err),
     printed |-> IF resp.ok THEN <<>> ELSE << resp.err >>]

----------------------------------------------------------------------------
(* The remote services: what exists, and the answers they can give *)

UiNames == {"doc-review-ui"}
FlowNames == {"doc-flow"}
RoleNames == {"notebook-role", "other-role"}
BucketNames == {<<"a", ".", "b">>, <<"a", "X", "b">>}

\* A string of ARN shape, naming a resource of some kind.
ArnStr(kind, name) == [t |-> "str", arn |-> kind, name |-> name]
IsArnShape(x) == x.t = "str" /\ "arn" \in DOMAIN x

WorkteamArn == ArnStr("workteam", "private-crowd/reviewers")
PrivilegedRoleArn == ArnStr("role", "notebook-role")
UnprivilegedRoleArn == ArnStr("role", "other-role")

NoFlow == None

\* A failure any remote call can meet, whatever its arguments.
ServiceUnavailable == "ServiceUnavailable"

CreateHumanTaskUiResponse(name) ==
    [t |-> "dict", HumanTaskUiArn |-> ArnStr("human-task-ui", name),
     ResponseMetadata |-> "metadata"]

CreateHumanTaskUiAnswers(call) ==
    {Fail(ServiceUnavailable)} \cup
    (IF call.HumanTaskUiName \in uis THEN {Fail("ResourceInUse")}
     ELSE {Ok(CreateHumanTaskUiResponse(call.HumanTaskUiName))})

\* The references of a request are a closure: the UI, the work team and the
\* role all exist.
ValidFlowDefinitionRequest(request) ==
    /\ request.HumanLoopConfig.HumanTaskUiArn \in {ArnStr("human-task-ui", n) : n \in uis}
    /\ request.HumanLoopConfig.WorkteamArn = WorkteamArn
    /\ request.RoleArn \in {PrivilegedRoleArn, UnprivilegedRoleArn}

CreateFlowDefinitionResponse(name) ==
    [t |-> "dict", FlowDefinitionArn |-> ArnStr("flow-definition", name),
     ResponseMetadata |-> "metadata"]

CreateFlowDefinitionAnswers(request) ==
    {Fail(ServiceUnavailable)} \cup
    (IF ~ValidFlowDefinitionRequest(request) THEN {Fail("ValidationError")}
     ELSE IF request.RoleArn # PrivilegedRoleArn THEN {Fail("AccessDenied")}
     ELSE IF flows[request.FlowDefinitionName] # NoFlow THEN {Fail("ResourceInUse")}
     ELSE {Ok(CreateFlowDefinitionResponse(request.FlowDefinitionName))})

DescribeFlowDefinitionAnswers(name) ==
    {Fail(ServiceUnavailable)} \cup
    (IF flows[name] = NoFlow THEN {Fail("ResourceNotFound")}
     ELSE {Ok([t |-> "dict", FlowDefinitionName |-> name,
               FlowDefinitionStatus |-> "Active", ResponseMetadata |-> "metadata"])})

\* An object body: its text, and whether the text is a JSON document.
ObjectBodies == {[text |-> "{\"humanAnswers\": []}", json |-> TRUE],
                 [text |-> "<html>", json |-> FALSE]}

GetObjectAnswers == {Fail("NoSuchKey")} \cup {Ok(b) : b \in ObjectBodies}

PutBucketCorsAnswers == {Fail("AccessDenied"), Ok(None)}

AttachRolePolicyAnswers == {Fail("AccessDenied"), Ok(None)}

\* The CORS rules a bucket may have before the client touches it.
PriorRules ==
    << [AllowedHeaders |-> <<"*">>,
        AllowedMethods |-> <<"PUT", "POST">>,
        AllowedOrigins |-> <<"https://example.com">>,
        ExposeHeaders |-> <<"ETag">>] >>

\* A policy a role may carry before the client touches it.
PriorPolicy == "arn:aws:iam::aws:policy/service-role/AmazonSageMakerNotebookPolicy"

----------------------------------------------------------------------------
(* The arguments the caller passes *)

\* For human_task_ui_arn: an empty string, a string that is no ARN, the ARN
\* of each UI name (the UI may or may not exist), and whatever the caller
\* kept from its last create_task_ui.
HumanTaskUiArnArgs ==
    {Str(""), Str("not-an-arn")} \cup {ArnStr("human-task-ui", n) : n \in UiNames}
    \cup {saved}

WorkteamArnArgs == {WorkteamArn, Str("")}
RoleArnArgs == {PrivilegedRoleArn, UnprivilegedRoleArn}
OutputPathArgs == {Str("s3://out/path")}

\* For a2i_s3_output_uri: s3://a.b/k, and a bare key.
SampleUris == {S3Scheme \o <<"a", ".", "b">> \o Slash \o <<"k">>, <<"k">>}

\* The longest URI tried, counted in pieces.
MaxPieces == 6

UriPieces == {S3Scheme, Slash, <<"k">>} \cup BucketNames

RECURSIVE UrisOfPieces(_)
UrisOfPieces(n) ==
    IF n = 0 THEN {<<>>}
    ELSE LET shorter == UrisOfPieces(n - 1)
         IN  shorter \cup {u \o p : u \in shorter, p \in UriPieces}

OutputUris == UrisOfPieces(MaxPieces)

----------------------------------------------------------------------------
(* The state machine *)

Init ==
    /\ uis = {}
    /\ flows = [n \in FlowNames |-> NoFlow]
    /\ cors = [b \in BucketNames |-> IF b = <<"a", ".", "b">> THEN PriorRules ELSE <<>>]
    /\ attached = [r \in RoleNames |-> IF r = "notebook-role" THEN {PriorPolicy} ELSE {}]
    /\ saved = None
    /\ op = [fn |-> "none"]
    /\ calls = <<>>
    /\ result = NoCall
    /\ printed = <<>>
    /\ pc = 0

\* The local end of a call that runs in one step.
Ended(o, r) ==
    /\ op' = o
    /\ calls' = r.calls
    /\ result' = r.result
    /\ printed' = r.printed
    /\ pc' = 0

CreateTaskUi(task_ui_name, resp) ==
    LET r == create_task_ui(task_ui_name, resp)
    IN  /\ pc = 0
        /\ resp \in CreateHumanTaskUiAnswers(r.calls[1])
        /\ Ended([fn |-> "create_task_ui", task_ui_name |-> task_ui_name], r)
        /\ uis' = IF resp.ok THEN uis \cup {r.calls[1].HumanTaskUiName} ELSE uis
        /\ saved' = IF r.result.kind = "return" THEN r.result.val ELSE saved
        /\ UNCHANGED <<flows, cors, attached>>

CreateFlowDefinition(flow_definition_name, workteam_arn, human_task_ui_arn, role_arn, a2i_output_path, resp) ==
    LET r == create_flow_definition(flow_definition_name, workteam_arn,
                                    human_task_ui_arn, role_arn, a2i_output_path, resp)
        request == r.calls[1].request
    IN  /\ pc = 0
        /\ resp \in CreateFlowDefinitionAnswers(request)
        /\ Ended([fn |-> "create_flow_definition",
                  flow_definition_name |-> flow_definition_name,
                  workteam_arn |-> workteam_arn,
                  human_task_ui_arn |-> human_task_ui_arn,
                  role_arn |-> role_arn,
                  a2i_output_path |-> a2i_output_path], r)
        /\ flows' = IF resp.ok THEN [flows EXCEPT ![request.FlowDefinitionName] = request]
                    ELSE flows
        /\ UNCHANGED <<uis, cors, attached, saved>>

DescribeFlowDefinition(name, resp) ==
    /\ pc = 0
    /\ resp \in DescribeFlowDefinitionAnswers(name)
    /\ Ended([fn |-> "describe_flow_definition", name |-> name],
             describe_flow_definition(name, resp))
    /\ UNCHANGED <<uis, flows, cors, attached, saved>>

RetrieveResults(bucket, a2i_s3_output_uri, resp) ==
    /\ pc = 0
    /\ resp \in GetObjectAnswers
    /\ Ended([fn |-> "retrieve_a2i_results_from_output_s3_uri", bucket |-> bucket,
              a2i_s3_output_uri |-> a2i_s3_output_uri],
             retrieve_a2i_results_from_output_s3_uri(bucket, a2i_s3_output_uri, resp))
    /\ UNCHANGED <<uis, flows, cors, attached, saved>>

AddCorsPolicy(bucket_name, resp) ==
    LET r == add_cors_policy(bucket_name, resp)
        call == r.calls[1]
    IN  /\ pc = 0
        /\ resp \in PutBucketCorsAnswers
        /\ Ended([fn |-> "add_cors_policy", bucket_name |-> bucket_name], r)
        /\ cors' = IF resp.ok
                   THEN [cors EXCEPT ![call.Bucket] = call.CORSConfiguration.CORSRules]
                   ELSE cors
        /\ UNCHANGED <<uis, flows, attached, saved>>

UpdateNotebookRoleEnter(role_name) ==
    /\ pc = 0
    /\ op' = [fn |-> "update_notebook_role", role_name |-> role_name]
    /\ calls' = <<>>
    /\ result' = Running
    /\ printed' = <<>>
    /\ pc' = 1
    /\ UNCHANGED <<uis, flows, cors, attached, saved>>

UpdateNotebookRoleAttach(resp) ==
    /\ pc \in 1..Len(PolicyArns)
    /\ resp \in AttachRolePolicyAnswers
    /\ LET r == update_notebook_role_step(op.role_name, pc, resp)
           call == r.calls[1]
       IN  /\ calls' = calls \o r.calls
           /\ result' = r.result
           /\ printed' = printed \o r.printed
           /\ pc' = r.pc
           /\ attached' = IF resp.ok
                          THEN [attached EXCEPT ![call.RoleName] = @ \cup {call.PolicyArn}]
                          ELSE attached
    /\ UNCHANGED <<uis, flows, cors, saved, op>>

Next ==
    \/ \E n \in UiNames :
          \E resp \in CreateHumanTaskUiAnswers([HumanTaskUiName |-> n]) :
             CreateTaskUi(n, resp)
    \/ \E n \in FlowNames, w \in WorkteamArnArgs, u \in HumanTaskUiArnArgs,
          r \in RoleArnArgs, o \in OutputPathArgs :
          \E resp \in CreateFlowDefinitionAnswers(FlowDefinitionRequest(n, w, u, r, o)) :
             CreateFlowDefinition(n, w, u, r, o, resp)
    \/ \E n \in FlowNames :
          \E resp \in DescribeFlowDefinitionAnswers(n) :
             DescribeFlowDefinition(n, resp)
    \/ \E b \in BucketNames, u \in SampleUris, resp \in GetObjectAnswers :
          RetrieveResults(b, u, resp)
    \/ \E b \in BucketNames, resp \in PutBucketCorsAnswers : AddCorsPolicy(b, resp)
    \/ \E r \in RoleNames : UpdateNotebookRoleEnter(r)
    \/ \E resp \in AttachRolePolicyAnswers : UpdateNotebookRoleAttach(resp)

Spec == Init /\ [][Next]_vars

\* retrieve_a2i_results_from_output_s3_uri alone, over every bucket and URI.
\* The function reads no state and changes none, so one call from the
\* initial state is every call.
NextRetrieve ==
    result = NoCall /\
    \E b \in BucketNames, u \in OutputUris, resp \in GetObjectAnswers :
       RetrieveResults(b, u, resp)

SpecRetrieve == Init /\ [][NextRetrieve]_vars

----------------------------------------------------------------------------
(* Properties *)

RetrieveEnded == op.fn = "retrieve_a2i_results_from_output_s3_uri"

\* The text s3://{bucket}/, character for character.
S3Prefix(bucket) == S3Scheme \o bucket \o Slash

StartsWith(string, prefix) ==
    Len(string) >= Len(prefix) /\ SubSeq(string, 1, Len(prefix)) = prefix

Contains(string, text) ==
    \E i \in 1..Len(string) :
       i + Len(text) - 1 <= Len(string) /\ SubSeq(string, i, i + Len(text) - 1) = text

\* C1: for a URI s3://{bucket}/{key}, retrieve_a2i_results_from_output_s3_uri
\* issues one get_object, for that bucket and for the whole of {key}: all of
\* the URI after the leading s3://{bucket}/.
C1_KeyIsAllAfterPrefix ==
    (RetrieveEnded /\ StartsWith(op.a2i_s3_output_uri, S3Prefix(op.bucket)))
    => /\ Len(calls) = 1
       /\ calls[1].api = "s3.get_object"
       /\ calls[1].Bucket = op.bucket
       /\ calls[1].Key = SubSeq(op.a2i_s3_output_uri, Len(S3Prefix(op.bucket)) + 1,
                                Len(op.a2i_s3_output_uri))

\* C2: for a URI that does not contain the text s3://{bucket}/, the call
\* fails with the malformed-URI error (the IndexError of splitted_string[1])
\* and issues no get_object.
C2_NoPrefixNoFetch ==
    (RetrieveEnded /\ ~Contains(op.a2i_s3_output_uri, S3Prefix(op.bucket)))
    => /\ result = Raise(IndexError)
       /\ calls = <<>>

SwallowingCalls == {"add_cors_policy", "update_notebook_role"}

AnyCallFailed == \E i \in 1..Len(calls) : ~calls[i].answer.ok

\* C3: add_cors_policy and update_notebook_role never raise: whatever remote
\* call fails, the call ends in a normal return of None, the value it returns
\* when every remote call succeeds.
C3_SwallowingCallsReturnNone ==
    (op.fn \in SwallowingCalls)
    => /\ result.kind # "raise"
       /\ pc = 0 => result = Return(None)

C3_Witness ==
    /\ op.fn = "update_notebook_role"
    /\ pc = 0
    /\ Len(calls) = 1
    /\ ~calls[1].answer.ok
    /\ result = Return(None)
    /\ printed = << calls[1].answer.err >>

TextractFullAccess == "arn:aws:iam::aws:policy/AmazonTextractFullAccess"
SageMakerFullAccess == "arn:aws:iam::aws:policy/AmazonSageMakerFullAccess"
S3FullAccess == "arn:aws:iam::aws:policy/AmazonS3FullAccess"
FixedPolicies == {TextractFullAccess, SageMakerFullAccess, S3FullAccess}
FixedOrder == <<TextractFullAccess, SageMakerFullAccess, S3FullAccess>>

RoleCallReturned == op.fn = "update_notebook_role" /\ pc = 0

AttachCallsFor(role_name) ==
    \A i \in 1..Len(calls) :
       /\ calls[i].api = "iam.attach_role_policy"
       /\ calls[i].RoleName = role_name
       /\ calls[i].PolicyArn \in FixedPolicies

\* C4 as stated: when update_notebook_role returns, exactly three attach calls
\* were issued for the role, one for each of the three fixed policies, and
\* none for another policy or role.
C4_ExactlyThreeAttachCalls ==
    RoleCallReturned
    => /\ Len(calls) = 3
       /\ AttachCallsFor(op.role_name)
       /\ {calls[i].PolicyArn : i \in 1..Len(calls)} = FixedPolicies

\* C4 as amended: when update_notebook_role returns, at most three attach
\* calls were issued, all for the role, each for another one of the three
\* fixed policies, none for another policy or role; and exactly three, one
\* for each policy, when no attach call failed.
C4_AtMostThreeAttachCalls ==
    RoleCallReturned
    => /\ Len(calls) <= 3
       /\ AttachCallsFor(op.role_name)
       /\ \A i, j \in 1..Len(calls) : calls[i].PolicyArn = calls[j].PolicyArn => i = j
       /\ ~AnyCallFailed =>
            /\ Len(calls) = 3
            /\ {calls[i].PolicyArn : i \in 1..Len(calls)} = FixedPolicies

C4_Witness ==
    /\ RoleCallReturned
    /\ op.role_name = "other-role"
    /\ Len(calls) = 3
    /\ ~AnyCallFailed
    /\ attached["other-role"] = FixedPolicies

ConditionsOf(request) ==
    request.HumanLoopActivationConfig.HumanLoopActivationConditionsConfig.HumanLoopActivationConditions

\* One Conditions entry, whose Or list has the five rules.
FixedConditions(c) ==
    /\ c.t = "str"
    /\ Len(c.json.Conditions) = 1
    /\ Len(c.json.Conditions[1].Or) = 5
    /\ [i \in 1..5 |-> c.json.Conditions[1].Or[i].ConditionType]
         = << "ImportantFormKeyConfidenceCheck", "MissingImportantFormKey",
              "ImportantFormKeyConfidenceCheck", "ImportantFormKeyConfidenceCheck",
              "ImportantFormKeyConfidenceCheck" >>
    /\ [i \in 1..5 |-> c.json.Conditions[1].Or[i].ConditionParameters.ImportantFormKey]
         = << "Mail address", "Mail address", "Phone Number", "*", "*" >>

FlowCallEnded == op.fn = "create_flow_definition"

\* C5: the activation conditions create_flow_definition submits are one
\* Conditions entry whose Or list has the five fixed rules, the same in every
\* request whatever the arguments (the request of this call and the requests
\* that created the flow definitions that exist); the arguments are in the
\* name, role, human-loop config and output-path fields.
C5_ConditionsAreFixed ==
    /\ \A n \in FlowNames : flows[n] # NoFlow => FixedConditions(ConditionsOf(flows[n]))
    /\ FlowCallEnded =>
         LET request == calls[1].request
         IN  /\ Len(calls) = 1
             /\ FixedConditions(ConditionsOf(request))
             /\ \A n \in FlowNames :
                   flows[n] # NoFlow => ConditionsOf(flows[n]) = ConditionsOf(request)
             /\ request.FlowDefinitionName = op.flow_definition_name
             /\ request.RoleArn = op.role_arn
             /\ request.HumanLoopConfig.WorkteamArn = op.workteam_arn
             /\ request.HumanLoopConfig.HumanTaskUiArn = op.human_task_ui_arn
             /\ request.OutputConfig.S3OutputPath = op.a2i_output_path

C5_Witness ==
    /\ FlowCallEnded
    /\ flows["doc-flow"] # NoFlow
    /\ op.human_task_ui_arn = Str("not-an-arn")
    /\ op.role_arn = UnprivilegedRoleArn
    /\ flows["doc-flow"].RoleArn = PrivilegedRoleArn

PropagatingCalls == {"create_task_ui", "create_flow_definition",
                     "describe_flow_definition", "retrieve_a2i_results_from_output_s3_uri"}

\* C6: in create_task_ui, create_flow_definition, describe_flow_definition and
\* retrieve_a2i_results_from_output_s3_uri, a failed remote call ends the call
\* in that call's error, a body that is no JSON ends it in the decode error,
\* and at most one remote call is issued.
C6_FailuresPropagateWithoutRetry ==
    (op.fn \in PropagatingCalls)
    => /\ Len(calls) <= 1
       /\ \A i \in 1..Len(calls) :
             /\ ~calls[i].answer.ok => result = Raise(calls[i].answer.err)
             /\ (/\ RetrieveEnded
                 /\ calls[i].answer.ok
                 /\ ~calls[i].answer.val.json) => result = Raise(JSONDecodeError)

C6_Witness ==
    /\ op.fn = "describe_flow_definition"
    /\ Len(calls) = 1
    /\ calls[1].answer = Fail("ResourceNotFound")
    /\ result = Raise(Exc("ResourceNotFound"))

\* C7: on success create_task_ui returns the ARN of the UI it created, the
\* HumanTaskUiArn of the remote answer, not the answer itself.
C7_ReturnsUiArn ==
    (op.fn = "create_task_ui" /\ result.kind = "return")
    => /\ IsArnShape(result.val)
       /\ result.val = calls[1].answer.val.HumanTaskUiArn

ExistingUiArns == {ArnStr("human-task-ui", n) : n \in uis}

\* The remote call of this create_flow_definition met none of the failures
\* that have nothing to do with the UI.
NoOtherFailure ==
    /\ op.workteam_arn = WorkteamArn
    /\ op.role_arn = PrivilegedRoleArn
    /\ calls[1].answer \notin {Fail(ServiceUnavailable), Fail("ResourceInUse")}

\* C8: every flow definition that exists references a UI that exists; a
\* create_flow_definition whose human_task_ui_arn is not the ARN of an
\* existing UI fails (with ValidationError, when the service is reachable);
\* and a create_flow_definition given the value an earlier create_task_ui
\* returned succeeds.
C8_FlowReferencesCreatedUi ==
    /\ \A n \in FlowNames :
          flows[n] # NoFlow => flows[n].HumanLoopConfig.HumanTaskUiArn \in ExistingUiArns
    /\ (FlowCallEnded /\ op.human_task_ui_arn \notin ExistingUiArns)
       => /\ result.kind = "raise"
          /\ result.val \in {Exc("ValidationError"), Exc(ServiceUnavailable)}
    /\ (FlowCallEnded /\ saved # None /\ op.human_task_ui_arn = saved /\ NoOtherFailure)
       => result.kind = "return"

\* The one fixed rule: GET only, any origin, no allowed and no exposed headers.
FixedCorsRules ==
    << [AllowedHeaders |-> <<>>, AllowedMethods |-> <<"GET">>,
        AllowedOrigins |-> <<"*">>, ExposeHeaders |-> <<>>] >>

\* C9: a step of add_cors_policy leaves the bucket with exactly the fixed rule
\* when the put succeeds, whatever rules it had, and with the rules it had
\* when the put fails; the rules of every other bucket stay as they were.
C9_CorsReplacedForOneBucket ==
    [][ (pc = 0 /\ op'.fn = "add_cors_policy")
        => /\ \A b \in BucketNames \ {op'.bucket_name} : cors'[b] = cors[b]
           /\ calls'[1].answer.ok => cors'[op'.bucket_name] = FixedCorsRules
           /\ ~calls'[1].answer.ok => cors'[op'.bucket_name] = cors[op'.bucket_name]
      ]_vars

C9_Witness ==
    /\ op.fn = "add_cors_policy"
    /\ op.bucket_name = <<"a", ".", "b">>
    /\ calls[1].answer.ok
    /\ cors[<<"a", ".", "b">>] = FixedCorsRules
    /\ cors[<<"a", "X", "b">>] = <<>>

\* C10: update_notebook_role issues its attach calls in the order Textract,
\* SageMaker, S3 and stops at the first failure: every call but the last one
\* issued succeeded, a failed call is the last one and ends the call in a
\* normal return, the policies of the calls that succeeded are attached, and
\* the call returns only after three calls or a failed one.
C10_AttachInOrderUntilFailure ==
    (op.fn = "update_notebook_role")
    => /\ Len(calls) <= 3
       /\ \A i \in 1..Len(calls) :
             /\ calls[i].RoleName = op.role_name
             /\ calls[i].PolicyArn = FixedOrder[i]
             /\ i < Len(calls) => calls[i].answer.ok
             /\ calls[i].answer.ok => FixedOrder[i] \in attached[op.role_name]
             /\ ~calls[i].answer.ok => (pc = 0 /\ result = Return(None))
       /\ pc # 0 => Len(calls) = pc - 1
       /\ pc = 0 => (Len(calls) = 3 \/ AnyCallFailed)

C10_Witness ==
    /\ RoleCallReturned
    /\ op.role_name = "other-role"
    /\ Len(calls) = 2
    /\ calls[1].answer.ok
    /\ ~calls[2].answer.ok
    /\ attached["other-role"] = {TextractFullAccess}

====
